---- MODULE Spec2Model ----
(***************************************************************************)
(* A model of suspect/io/twix.py: the TwixBuilder, the two scan-record     *)
(* decoding loops (load_twix_vb, load_twix_vd), the format dispatcher and  *)
(* the header anonymizer.                                                   *)
(*                                                                         *)
(* Spec      the decode path: load_twix, one action per loop iteration of  *)
(*           the variant's decoder, then build_mrsdata.                    *)
(* SpecAnon  the anonymize path: anonymize_twix, the statements of         *)
(*           anonymize_twix_header, the writes of anonymize_twix_vb.       *)
(* SpecBuilder  the TwixBuilder on its own: set_header_string, add_scan,   *)
(*           build_mrsdata.                                                *)
(***************************************************************************)
EXTENDS Integers, Sequences, FiniteSets, TLC

VARIABLES
    file,       \* the leading fields of the container: the two uints load_twix reads
    stream,     \* the scan records of the file, by byte offset, as far as they were read
    variant,    \* which decoder load_twix chose: "vb" | "vd" | "none"
    pos,        \* fin.tell()
    pc,         \* "start" | "loop" | "decoded" | "built" | "error"
    builder,    \* the TwixBuilder: np, num_channels, data, loop_counters
    visited,    \* history: start_position of every loop iteration, in order
    accepted,   \* history: the loop iterations (indices of visited) that called add_scan
    mrs_data,   \* what build_mrsdata returned
    fin,            \* anonymize_twix: the bytes of the input file
    header_string,  \* anonymize_twix_header: header_string
    anon_pc,        \* anonymize_twix: "start" | "vd" | "vb" | the statement of
                    \* anonymize_twix_header to run | "write" | "done" | "error" | "idle"
    fout            \* anonymize_twix: the bytes of the output file

decode_vars == <<file, stream, variant, pos, pc, builder, visited, accepted, mrs_data>>

anon_vars == <<fin, header_string, anon_pc, fout>>

vars == <<decode_vars, anon_vars>>

(***************************************************************************)
(* Bounds of the model.                                                    *)
(***************************************************************************)
\* loop iterations of a decoder that are followed
MaxScans == 3

(***************************************************************************)
(* Python values.                                                          *)
(***************************************************************************)
\* self.np / self.num_channels before the first set_np / set_num_channels
None == -1

Pow2(k) == 2 ^ k

\* x >> k & 1
Bit(x, k) == (x \div Pow2(k)) % 2

RECURSIVE Log2Floor(_)
\* numpy.floor(numpy.log2(x)) for x >= 1
Log2Floor(x) == IF x < 2 THEN 0 ELSE 1 + Log2Floor(x \div 2)

RECURSIVE MaxOf(_)
MaxOf(S) ==
    LET x == CHOOSE y \in S : TRUE
    IN  IF S = {x} THEN x
        ELSE LET m == MaxOf(S \ {x}) IN IF x > m THEN x ELSE m

(***************************************************************************)
(* The records of the stream.  A record is what the decoder parses at an   *)
(* offset: the composite word temp as its four bytes (little-endian), the  *)
(* flag word, and the fields of the body.  kind "eof": the file ends       *)
(* before the record's leading fields; kind "short": the file ends inside  *)
(* the record's body.                                                      *)
(***************************************************************************)
NumLoopCounters == 14

Zero14 == [i \in 1..NumLoopCounters |-> 0]

LoopCounterInputs ==
    { Zero14, [Zero14 EXCEPT ![1] = 1], [Zero14 EXCEPT ![14] = 2] }

\* DMA length 0, 192, and 192 with bit 26 (the lowest bit of PCI_rx) set
TempInputs == { <<0, 0, 0, 0>>, <<192, 0, 0, 0>>, <<192, 0, 0, 4>> }

\* bit 0 acq_end, 1 rt_feedback, 2 hp_feedback, 5 sync_data,
\* 21 phase_correction, 25 noise_adj_scan
FlagMaskInputs == { 1, 3, 2, 4, 32, Pow2(21), Pow2(25) }

\* flag words of data records: bits 10 (raw_data_correction) and 17 (sign_rev)
\* are broken out but not used for control flow
DataMaskInputs == { 0, Pow2(10) + Pow2(17) }

\* <<num_samples, num_channels, free_params[0], ice_program_params[4]>>
BaseShape == <<8, 2, 2, 0>>

\* the sample blocks of the file differ by a seed
SeedInputs == { 0, 1 }

ShapeInputs ==
    { BaseShape, <<8, 2, 0, 1>>, <<8, 1, 2, 0>>, <<6, 2, 2, 0>>,
      <<2, 2, 2, 0>>, <<2, 2, 3, 0>> }

Record(kind, temp, mask, shape, lc, seed) ==
    [ kind |-> kind, temp |-> temp, eval_info_mask |-> mask,
      num_samples |-> shape[1], num_channels |-> shape[2],
      free_param0 |-> shape[3], ice_program_param4 |-> shape[4],
      loop_counters |-> lc, seed |-> seed ]

EofRecord == Record("eof", <<0, 0, 0, 0>>, 0, BaseShape, Zero14, 0)

\* records whose body the decoder never parses (the body is left at one value):
\* every flag word with DMA length 192, and every temp with rt_feedback
HeaderOnlyInputs ==
    { Record("full", <<192, 0, 0, 0>>, m, BaseShape, Zero14, 0) : m \in FlagMaskInputs }
    \cup
    { Record("full", t, 2, BaseShape, Zero14, 0) : t \in TempInputs }

\* data records: the base record under every temp and flag word, every shape,
\* the base shape at every loop index with every sample block, and a record
\* cut short by the end of the file
DataInputs ==
    { Record("full", t, m, BaseShape, Zero14, 0) : t \in TempInputs, m \in DataMaskInputs }
    \cup
    { Record("full", <<192, 0, 0, 0>>, 0, sh, Zero14, 0) : sh \in ShapeInputs }
    \cup
    { Record("full", <<192, 0, 0, 0>>, 0, BaseShape, lc, seed) :
        lc \in LoopCounterInputs, seed \in SeedInputs }
    \cup
    { Record("short", <<192, 0, 0, 0>>, 0, BaseShape, Zero14, 0) }

StreamInputs == { EofRecord } \cup HeaderOnlyInputs \cup DataInputs

\* the 2 * num_samples floats of channel ch of a record, as the file holds them:
\* real and imaginary parts interleaved
RawData(rec, ch) ==
    [ j \in 1..(2 * rec.num_samples) |->
        IF j % 2 = 1 THEN 10 * rec.seed + (j + 1) \div 2
                     ELSE 100 * ch + j \div 2 ]

(***************************************************************************)
(* Text.  A str is a sequence of one-character strings; bytes are numbers. *)
(***************************************************************************)
DigitSeq == <<"0", "1", "2", "3", "4", "5", "6", "7", "8", "9">>

UpperSeq ==
    <<"A", "B", "C", "D", "E", "F", "G", "H", "I", "J", "K", "L", "M", "N",
    "O", "P", "Q", "R", "S", "T", "U", "V", "W", "X", "Y", "Z">>

LowerSeq ==
    <<"a", "b", "c", "d", "e", "f", "g", "h", "i", "j", "k", "l", "m", "n",
    "o", "p", "q", "r", "s", "t", "u", "v", "w", "x", "y", "z">>

\* the characters of bytes 32 .. 126, in order ("grave" stands for the grave
\* accent of byte 96)
PrintableSeq ==
    <<" ", "!", "\"", "#", "$", "%", "&", "'", "(", ")", "*", "+", ",",
    "-", ".", "/", "0", "1", "2", "3", "4", "5", "6", "7", "8", "9", ":", ";", "<",
    "=", ">", "?", "@", "A", "B", "C", "D", "E", "F", "G", "H", "I", "J", "K", "L",
    "M", "N", "O", "P", "Q", "R", "S", "T", "U", "V", "W", "X", "Y", "Z", "[", "\\",
    "]", "^", "_", "grave", "a", "b", "c", "d", "e", "f", "g", "h", "i", "j", "k", "l",
    "m", "n", "o", "p", "q", "r", "s", "t", "u", "v", "w", "x", "y", "z", "{", "|",
    "}", "~">>

Range(s) == { s[i] : i \in 1..Len(s) }

Digits == Range(DigitSeq)

\* \s, \w and . of Python's re on the characters of the model
Spaces == { " ", "\n" }

WordChars == Digits \cup Range(UpperSeq) \cup Range(LowerSeq) \cup { "_" }

\* bytes.decode('windows-1252') of one byte; byte 129 is not assigned in the
\* code page and the decode raises
DecodableBytes == { 10 } \cup (32..126)

decode_byte(b) == IF b = 10 THEN "\n" ELSE PrintableSeq[b - 31]

decode_raises(bytes) == \E i \in 1..Len(bytes) : bytes[i] \notin DecodableBytes

decode(bytes) == [ i \in 1..Len(bytes) |-> decode_byte(bytes[i]) ]

\* str.encode('windows-1252') of one character
EncodeTable ==
    [ c \in Range(PrintableSeq) \cup { "\n" } |->
        CHOOSE b \in DecodableBytes : decode_byte(b) = c ]

encode(text) == [ i \in 1..Len(text) |-> EncodeTable[text[i]] ]

\* struct.pack("I", n) and struct.unpack("I", b), little-endian, for n < 2 ** 31
pack_I(n) == << n % 256, (n \div 256) % 256, (n \div 65536) % 256, n \div 16777216 >>

unpack_I(b) == b[1] + 256 * b[2] + 65536 * b[3] + 16777216 * b[4]

\* s[a:b] of Python, for 0 <= a, as SubSeq
Slice(s, a, b) == SubSeq(s, a + 1, IF b > Len(s) THEN Len(s) ELSE b)

\* "x" * n
Filler(n) == [ i \in 1..n |-> "x" ]

(***************************************************************************)
(* Python's re, for the patterns of this file: a pattern is a sequence of  *)
(* atoms, each a literal string or a character class with a quantifier     *)
(* ("1", "+" or "*").  Matching is leftmost, greedy and backtracking.      *)
(***************************************************************************)
Atom(k, c, q) == [ k |-> k, c |-> c, q |-> q ]

Lit(c) == Atom("lit", c, "1")

\* a literal string as one atom of a pattern
Str(s) == Atom("str", s, "1")

ClassHas(a, ch) ==
    CASE a.k = "lit"      -> ch = a.c
      [] a.k = "any"      -> ch # "\n"
      [] a.k = "digit"    -> ch \in Digits
      [] a.k = "space"    -> ch \in Spaces
      [] a.k = "word"     -> ch \in WordChars
      [] a.k = "digdot"   -> ch \in Digits \cup { "." }
      [] a.k = "notquote" -> ch # "\""

\* how many characters from position i on are of the class of atom a
RunLength(a, text, i) ==
    LET stop == { j \in i..Len(text) : ~ClassHas(a, text[j]) }
    IN  IF stop = { } THEN Len(text) + 1 - i
        ELSE (CHOOSE j \in stop : \A h \in stop : j <= h) - i

NoMatch == << -1 >>

RECURSIVE MatchFrom(_, _, _, _)
RECURSIVE Greedy(_, _, _, _, _)
\* the match of atoms p.. of pat at position i of text: the position after
\* each atom, or NoMatch.  A repeated atom takes the most repetitions with
\* which the rest of the pattern matches.
MatchFrom(pat, p, text, i) ==
    IF p > Len(pat) THEN << >>
    ELSE IF pat[p].k = "str"
    THEN LET n == Len(pat[p].c)
         IN  IF i + n - 1 <= Len(text) /\ SubSeq(text, i, i + n - 1) = pat[p].c
             THEN LET r == MatchFrom(pat, p + 1, text, i + n)
                  IN  IF r = NoMatch THEN NoMatch ELSE << i + n >> \o r
             ELSE NoMatch
    ELSE IF pat[p].q = "1"
    THEN IF i <= Len(text) /\ ClassHas(pat[p], text[i])
         THEN LET r == MatchFrom(pat, p + 1, text, i + 1)
              IN  IF r = NoMatch THEN NoMatch ELSE << i + 1 >> \o r
         ELSE NoMatch
    ELSE Greedy(pat, p, text, i, RunLength(pat[p], text, i))

\* atom p repeated k times, and fewer when the rest does not match
Greedy(pat, p, text, i, k) ==
    IF k < (IF pat[p].q = "+" THEN 1 ELSE 0) THEN NoMatch
    ELSE LET r == MatchFrom(pat, p + 1, text, i + k)
         IN  IF r = NoMatch THEN Greedy(pat, p, text, i, k - 1) ELSE << i + k >> \o r

\* the first position from i on where pat matches, or 0
SearchFrom(pat, text, i) ==
    LET at == { j \in i..Len(text) : MatchFrom(pat, 1, text, j) # NoMatch }
    IN  IF at = { } THEN 0 ELSE CHOOSE j \in at : \A h \in at : j <= h

\* re.search(pat, text): [s |-> start, ends |-> the position after each atom], s = 0 for None
re_search(pat, text) ==
    LET s == SearchFrom(pat, text, 1)
    IN  [ s |-> s, ends |-> IF s = 0 THEN << >> ELSE MatchFrom(pat, 1, text, s) ]

\* the position after the match
MatchEnd(m) == m.ends[Len(m.ends)]

\* the span of the group made of atoms a .. b of the pattern: [from, to)
GroupStart(m, a) == IF a = 1 THEN m.s ELSE m.ends[a - 1]

GroupEnd(m, b) == m.ends[b]

RECURSIVE FindAll(_, _, _)
\* the non-overlapping matches of pat in text from position i on, left to right
FindAll(pat, text, i) ==
    LET s == SearchFrom(pat, text, i)
    IN  IF s = 0 THEN << >>
        ELSE LET m == [ s |-> s, ends |-> MatchFrom(pat, 1, text, s) ]
             IN  << m >> \o FindAll(pat, text, MatchEnd(m))

RECURSIVE Splice(_, _, _, _, _)
\* text from position i on with match k, k+1, ... of ms replaced by repl[k], ...
Splice(text, ms, repl, k, i) ==
    IF k > Len(ms) THEN SubSeq(text, i, Len(text))
    ELSE SubSeq(text, i, ms[k].s - 1) \o repl[k]
         \o Splice(text, ms, repl, k + 1, MatchEnd(ms[k]))

\* the text of a match
Group0(text, m) == SubSeq(text, m.s, MatchEnd(m) - 1)

\* re.sub(<class>, "x", s): every character of the class replaced by x
MaskClass(s, a) == [ i \in 1..Len(s) |-> IF ClassHas(a, s[i]) THEN "x" ELSE s[i] ]

\* the characters re.escape puts a backslash before
Special ==
    { "(", ")", "[", "]", "{", "}", "?", "*", "+", "-", "|", "^", "$", "\\", ".",
      "&", "~", "#", " ", "\n" }

RECURSIVE re_escape(_)
\* re.escape(s)
re_escape(s) ==
    IF s = << >> THEN << >>
    ELSE (IF s[1] \in Special THEN << "\\", s[1] >> ELSE << s[1] >>) \o re_escape(Tail(s))

RECURSIVE re_compile(_)
\* re.compile of a str whose only operators are "\", "." , "+" and "*": "\"
\* quotes the next character, "." is any character but the newline, "+" and
\* "*" repeat the atom before them
re_compile(s) ==
    IF s = << >> THEN << >>
    ELSE LET esc  == s[1] = "\\" /\ Len(s) >= 2
             n    == IF esc THEN 2 ELSE 1
             base == IF esc THEN Atom("lit", s[2], "1")
                     ELSE IF s[1] = "." THEN Atom("any", "", "1")
                     ELSE Atom("lit", s[1], "1")
             rep  == Len(s) > n /\ s[n + 1] \in { "+", "*" }
         IN  IF rep
             THEN << [ base EXCEPT !.q = s[n + 1] ] >> \o re_compile(SubSeq(s, n + 2, Len(s)))
             ELSE << base >> \o re_compile(SubSeq(s, n + 1, Len(s)))

RECURSIVE Split(_, _)
\* s.split(sep) for a one-character sep
Split(s, sep) ==
    IF \A i \in 1..Len(s) : s[i] # sep THEN << s >>
    ELSE LET i == CHOOSE j \in 1..Len(s) : s[j] = sep /\ \A h \in 1..(j - 1) : s[h] # sep
         IN  << SubSeq(s, 1, i - 1) >> \o Split(SubSeq(s, i + 1, Len(s)), sep)

(***************************************************************************)
(* The header text and the patterns of anonymize_twix_header.              *)
(***************************************************************************)
TagParamString == <<"<", "P", "a", "r", "a", "m", "S", "t", "r", "i", "n", "g">>

TagParamLong == <<"<", "P", "a", "r", "a", "m", "L", "o", "n", "g">>

NamePatientID == <<"\"", "P", "a", "t", "i", "e", "n", "t", "I", "D", "\"", ">">>

NamePatientBirthDay ==
    <<"\"", "P", "a", "t", "i", "e", "n", "t", "B", "i", "r", "t",
    "h", "D", "a", "y", "\"", ">">>

NamePatientName ==
    <<"\"", "P", "a", "t", "i", "e", "n", "t", "N", "a", "m", "e", "\"",
    ">">>

NamePatientSex == <<"\"", "P", "a", "t", "i", "e", "n", "t", "S", "e", "x", "\"", ">">>

NameFrameOfReference ==
    <<"\"", "F", "r", "a", "m", "e", "O", "f", "R", "e", "f", "e",
    "r", "e", "n", "c", "e", "\"", ">">>

NameSex == <<"S", "e", "x", "\"", ">">>

NameStudy == <<"\"", "S", "t", "u", "d", "y", "\"", ">">>

OpenBrace == <<" ", " ", "{", " ">>

CloseBrace == <<" ", " ", "}", "\n">>

Epoch == <<"\"", "1", "9", "7", "0", "0", "1", "0", "1", "\"">>

AnyChar == Atom("any", "", "1")

\* (<ParamString.\"Name\">  { )(\".+\")(  }\n): group 2 is atoms 5 to 7
ParamStringPattern(name) ==
    << Str(TagParamString), AnyChar, Str(name), Str(OpenBrace),
       Lit("\""), Atom("any", "", "+"), Lit("\""), Str(CloseBrace) >>

\* re.search(ParamStringPattern(name), text).group(2)
ParamStringValue(name, text) ==
    LET m == re_search(ParamStringPattern(name), text)
    IN  SubSeq(text, GroupStart(m, 5), GroupEnd(m, 7) - 1)

\* (<ParamLong.\"PatientSex\">  { )(\d+)(  }\n): group 2 is atom 5
PatientSexPattern ==
    << Str(TagParamLong), AnyChar, Str(NamePatientSex), Str(OpenBrace),
       Atom("digit", "", "+"), Str(CloseBrace) >>

PatientSexGroup2 == 5

\* (Sex\">\s+\{\s*)(\d)(\s*\}): group 2 is atom 5
SexPattern ==
    << Str(NameSex), Atom("space", "", "+"), Lit("{"), Atom("space", "", "*"),
       Atom("digit", "", "1"), Atom("space", "", "*"), Lit("}") >>

SexGroup2 == 5

\* \"[\d\.]*{0}[\d\.]*\" with exam_date as {0}
ExamDatePattern(exam_date) ==
    << Lit("\""), Atom("digdot", "", "*") >> \o re_compile(exam_date)
    \o << Atom("digdot", "", "*"), Lit("\"") >>

\* a line of the header
ParamStringLine(name, value) ==
    TagParamString \o << "." >> \o name \o OpenBrace \o << "\"" >> \o value
    \o << "\"" >> \o CloseBrace

ParamLongLine(name, digits) ==
    TagParamLong \o << "." >> \o name \o OpenBrace \o digits \o CloseBrace

(***************************************************************************)
(* anonymize_twix_header, statement by statement.  Each step is given the  *)
(* header_string it starts from; a step raises when its re.search finds    *)
(* nothing (None has no group) or its index is out of range.               *)
(***************************************************************************)
search_raises(name, hs) == re_search(ParamStringPattern(name), hs).s = 0

\* re.sub(patient_id, "\"" + ("x" * (len(patient_id) - 2)) + "\"", header_string)
sub_patient_id(hs) ==
    LET patient_id == ParamStringValue(NamePatientID, hs)
        ms == FindAll(re_compile(patient_id), hs, 1)
    IN  Splice(hs, ms,
               [ k \in 1..Len(ms) |-> << "\"" >> \o Filler(Len(patient_id) - 2) \o << "\"" >> ],
               1, 1)

\* re.sub(patient_birthday, "\"19700101\"", header_string)
sub_patient_birthday(hs) ==
    LET patient_birthday == ParamStringValue(NamePatientBirthDay, hs)
        ms == FindAll(re_compile(patient_birthday), hs, 1)
    IN  Splice(hs, ms, [ k \in 1..Len(ms) |-> Epoch ], 1, 1)

\* re.sub(patient_name, lambda x: re.sub(r"[^\"]", "x", x.group()), header_string)
sub_patient_name(hs) ==
    LET patient_name == re_escape(ParamStringValue(NamePatientName, hs))
        ms == FindAll(re_compile(patient_name), hs, 1)
    IN  Splice(hs, ms,
               [ k \in 1..Len(ms) |-> MaskClass(Group0(hs, ms[k]), Atom("notquote", "", "1")) ],
               1, 1)

patient_gender_raises(hs) == re_search(PatientSexPattern, hs).s = 0

\* header_string[:patient_gender_span[0]] + "0" + header_string[patient_gender_span[1]:]
sub_patient_gender(hs) ==
    LET m == re_search(PatientSexPattern, hs)
    IN  SubSeq(hs, 1, GroupStart(m, PatientSexGroup2) - 1) \o << "0" >>
        \o SubSeq(hs, GroupEnd(m, PatientSexGroup2), Len(hs))

\* re.sub of SexPattern by group 1, "0", group 3
sub_sex(hs) ==
    LET ms == FindAll(SexPattern, hs, 1)
    IN  Splice(hs, ms,
               [ k \in 1..Len(ms) |->
                   SubSeq(hs, ms[k].s, GroupStart(ms[k], SexGroup2) - 1) \o << "0" >>
                   \o SubSeq(hs, GroupEnd(ms[k], SexGroup2), MatchEnd(ms[k]) - 1) ],
               1, 1)

\* frame_of_reference.split(".")
frame_parts(hs) == Split(ParamStringValue(NameFrameOfReference, hs), ".")

\* frame_of_reference.split(".")[10] raises on fewer than 11 parts
exam_date_raises(hs) ==
    \/ search_raises(NameFrameOfReference, hs)
    \/ Len(frame_parts(hs)) < 11

\* exam_date_time[2:8]
exam_date(hs) == Slice(frame_parts(hs)[11], 2, 8)

\* every string which contains the exam date: re.sub(r"\w", "x", match.group())
sub_exam_date(hs) ==
    LET ms == FindAll(ExamDatePattern(exam_date(hs)), hs, 1)
    IN  Splice(hs, ms,
               [ k \in 1..Len(ms) |-> MaskClass(Group0(hs, ms[k]), Atom("word", "", "1")) ],
               1, 1)

(***************************************************************************)
(* The files given to anonymize_twix.                                      *)
(***************************************************************************)
ID_AB12 == <<"A", "B", "1", "2">>

ID_APlusB == <<"A", "+", "B">>

ID_CD34 == <<"C", "D", "3", "4">>

BirthDay8 == <<"1", "9", "8", "0", "0", "1", "0", "1">>

BirthDay6 == <<"8", "0", "0", "1", "0", "1">>

NameDoe == <<"D", "o", "e", "^", "J", "o", "h", "n">>

Frame14 ==
    <<"1", ".", "3", ".", "1", "2", ".", "2", ".", "1", "1", "0", "7", ".", "5",
    ".", "2", ".", "3", "2", ".", "3", "5", ".", "1", ".", "2", "0", "1", "2", "0",
    "1", "0", "1", "1", "2", "3", "4", "5", "6", "7", "8", "9", ".", "0", ".", "0",
    ".", "0">>

Frame3 == <<"1", ".", "3", ".", "1", "2">>

StudyDated ==
    <<"1", ".", "3", ".", "1", "2", ".", "1", "2", "0", "1", "0", "1", ".",
    "7">>

StudyAAB == <<"A", "A", "B">>

StudyMRS == <<"M", "R", "S">>

\* the PatientID lines of a header: none, one, two
PatientIDInputs == { << >>, << ID_AB12 >>, << ID_APlusB >>, << ID_AB12, ID_CD34 >> }

BirthDayInputs == { BirthDay8, BirthDay6 }

SexInputs == { << "1" >>, << "1", "2" >> }

FrameInputs == { Frame14, Frame3 }

\* the value of a parameter that is no PHI field: the patient identifier
\* again, a string the pattern "A+B" matches, a string with the exam date,
\* another string
StudyInputs == { ID_AB12, StudyAAB, StudyDated, StudyMRS }

RECURSIVE Lines(_, _)
Lines(name, values) ==
    IF values = << >> THEN << >>
    ELSE ParamStringLine(name, values[1]) \o Lines(name, Tail(values))

HeaderText(ids, birthday, sex, frame, study) ==
    Lines(NamePatientID, ids)
    \o ParamStringLine(NamePatientBirthDay, birthday)
    \o ParamStringLine(NamePatientName, NameDoe)
    \o ParamLongLine(NamePatientSex, sex)
    \o TagParamLong \o << ".", "\"" >> \o NameSex \o << " ", "{", " ", "2", " ", "}", "\n" >>
    \o ParamStringLine(NameFrameOfReference, frame)
    \o ParamStringLine(NameStudy, study)

HeaderTexts ==
    { HeaderText(ids, birthday, sex, frame, study) :
        ids \in PatientIDInputs, birthday \in BirthDayInputs, sex \in SexInputs,
        frame \in FrameInputs, study \in StudyInputs }

\* the 24 bytes after the header text, and the scan records after the header
Junk24 == [ i \in 1..24 |-> 127 + i ]

BodyBytes == << 192, 0, 0, 0, 1, 2, 3, 4, 5, 6, 7, 8 >>

\* a non-indexed file: the header size, the header text, the 24 bytes, the body
VbFile(text_bytes) ==
    pack_I(4 + Len(text_bytes) + 24) \o text_bytes \o Junk24 \o BodyBytes

\* an indexed file: twix_id 0 and one measurement
VdFile == pack_I(0) \o pack_I(1) \o BodyBytes

AnonFileInputs ==
    { VbFile(encode(t)) : t \in HeaderTexts }
    \cup { VbFile(encode(TagParamString) \o << 129 >>) }
    \cup { VdFile }

(***************************************************************************)
(* parse_twix_header                                                       *)
(***************************************************************************)
NameProtocolName ==
    <<"\"", "t", "P", "r", "o", "t", "o", "c", "o", "l", "N", "a", "m",
    "e", "\"", ">">>

NameFrequency == <<"\"", "F", "r", "e", "q", "u", "e", "n", "c", "y", "\"", ">">>

NameDwellTimeSig ==
    <<"\"", "D", "w", "e", "l", "l", "T", "i", "m", "e", "S", "i", "g",
    "\"", ">">>

\* <ParamLong.\"Name\">  { \d*  }
ParamLongPattern(name) ==
    << Str(TagParamLong), AnyChar, Str(name), Str(OpenBrace),
       Atom("digit", "", "*"), Str(<< " ", " ", "}" >>) >>

\* group 2 of (<ParamString.\"Name\">  { \")(.+)(\"  }\n): the text between the quotes
ParamStringInner(name, text) ==
    LET m == re_search(ParamStringPattern(name), text)
    IN  SubSeq(text, GroupStart(m, 6), GroupEnd(m, 6) - 1)

\* re.search(r"[0-9]+", <the match of the ParamLong pattern of name>)
number_string(name, text) ==
    LET frequency_string == Group0(text, re_search(ParamLongPattern(name), text))
        m == re_search(<< Atom("digit", "", "+") >>, frequency_string)
    IN  IF m.s = 0 THEN << >> ELSE Group0(frequency_string, m)

RECURSIVE int(_)
\* int(number_string)
int(digits) ==
    IF digits = << >> THEN 0
    ELSE 10 * int(SubSeq(digits, 1, Len(digits) - 1))
         + (CHOOSE d \in 0..9 : DigitSeq[d + 1] = digits[Len(digits)])

\* one of the searches of parse_twix_header finds nothing
parse_raises(hs) ==
    \/ \E name \in { NameProtocolName, NamePatientID, NamePatientName, NamePatientBirthDay } :
          re_search(ParamStringPattern(name), hs).s = 0
    \/ \E name \in { NameFrequency, NameDwellTimeSig } :
          \/ re_search(ParamLongPattern(name), hs).s = 0
          \/ number_string(name, hs) = << >>

\* the dictionary parse_twix_header returns; dt is in units of 1e-9 and f0 in
\* units of 1e-6
parse_twix_header(hs) ==
    LET \* re.search(<ParamString pattern of name>, hs).group().split("\"")[3]
        split3(name) == Split(Group0(hs, re_search(ParamStringPattern(name), hs)), "\"")[4]
    IN
    [ parsed            |-> TRUE,
      protocol_name     |-> split3(NameProtocolName),
      patient_name      |-> re_escape(ParamStringInner(NamePatientName, hs)),
      patient_id        |-> split3(NamePatientID),
      patient_birthdate |-> ParamStringInner(NamePatientBirthDay, hs),
      dt                |-> int(number_string(NameDwellTimeSig, hs)),
      f0                |-> int(number_string(NameFrequency, hs)) ]

\* a header text for the decoders
ParseHeaderText(id, name, frequency) ==
    ParamStringLine(NameProtocolName, << "s", "v", "s", "_", "s", "e" >>)
    \o ParamStringLine(NamePatientID, id)
    \o ParamStringLine(NamePatientName, name)
    \o ParamStringLine(NamePatientBirthDay, BirthDay8)
    \o ParamLongLine(NameFrequency, frequency)
    \o ParamLongLine(NameDwellTimeSig, << "2", "5", "0" >>)

\* headers with and without characters re.escape changes, and one whose
\* Frequency has no digits
ParseHeaderInputs ==
    { ParseHeaderText(id, name, frequency) :
        id \in { ID_AB12, ID_APlusB }, name \in { NameDoe, << "S", "m", "i", "t", "h" >> },
        frequency \in { << "1", "2", "3" >>, << >> } }

(***************************************************************************)
(* TwixBuilder                                                             *)
(***************************************************************************)
\* header_params is None until set_header_string: parsed is FALSE
NewBuilder ==
    [ header_params |-> [ parsed |-> FALSE, protocol_name |-> << >>,
                          patient_name |-> << >>, patient_id |-> << >>,
                          patient_birthdate |-> << >>, dt |-> 0, f0 |-> 0 ],
      np |-> None, num_channels |-> None, data |-> <<>>, loop_counters |-> <<>> ]

\* self.header_params = parse_twix_header(header_string)
set_header_string(b, hs) == [b EXCEPT !.header_params = parse_twix_header(hs)]

\* set_np without its check
set_np_silent(b, v) == FALSE

set_np_raises(b, v) == b.np # None /\ b.np # v

set_np(b, v) == IF b.np = None THEN [b EXCEPT !.np = v] ELSE b

set_num_channels_raises(b, v) == b.num_channels # None /\ b.num_channels # v

set_num_channels(b, v) ==
    IF b.num_channels = None THEN [b EXCEPT !.num_channels = v] ELSE b

add_scan(b, lc, scan_data) ==
    [b EXCEPT !.loop_counters = Append(@, lc), !.data = Append(@, scan_data)]

(***************************************************************************)
(* The fields of a scan record as the decoders break them out.             *)
(***************************************************************************)
\* temp & (2 ** 26 - 1), on the four bytes of temp: the mask keeps the three low
\* bytes and the two low bits of the fourth
DMA_length(temp) ==
    temp[1] + 256 * temp[2] + 65536 * temp[3] + 16777216 * (temp[4] % 4)

acq_end(mask) == Bit(mask, 0) = 1

\* the condition without sync_data
ignore_scan_no_sync(mask) ==
    \/ Bit(mask, 1) = 1
    \/ Bit(mask, 2) = 1
    \/ Bit(mask, 21) = 1
    \/ Bit(mask, 25) = 1

\* rt_feedback or hp_feedback or phase_correction or noise_adj_scan or sync_data
ignore_scan(mask) ==
    \/ Bit(mask, 1) = 1
    \/ Bit(mask, 2) = 1
    \/ Bit(mask, 21) = 1
    \/ Bit(mask, 25) = 1
    \/ Bit(mask, 5) = 1

\* where the usable samples start: num_dummy_points (vb), fid_start (vd)
num_dummy_points(rec) == rec.free_param0

fid_start(rec) == rec.ice_program_param4 + rec.free_param0

sample_start(v, rec) == IF v = "vb" THEN num_dummy_points(rec) ELSE fid_start(rec)

\* int(2 ** numpy.floor(numpy.log2(x))): log2(0) is -inf and gives 0; x < 0 gives
\* nan, and int(nan) raises
usable_np_raises(x) == x < 0

usable_np(x) == IF x = 0 THEN 0 ELSE Pow2(Log2Floor(x))

\* complex(r, -i) for r, i in zip(data_iter, data_iter)
complex_iter(raw, k) == << raw[2 * k - 1], 0 - raw[2 * k] >>

\* the window taken from the first sample instead of from start
channel_row_from_zero(rec, ch, start, n) ==
    [ k \in 1..n |-> complex_iter(RawData(rec, ch), k) ]

\* numpy.fromiter(complex_iter, "complex64", num_samples)[start:(start + n)]
channel_row(rec, ch, start, n) ==
    [ k \in 1..n |-> complex_iter(RawData(rec, ch), start + k) ]

scan_matrix(rec, start, n) ==
    [ ch \in 1..rec.num_channels |-> channel_row(rec, ch, start, n) ]

(***************************************************************************)
(* load_twix: the dispatcher, and the part of each decoder before its loop *)
(***************************************************************************)
\* two files with a header text parse_twix_header accepts, and one with a
\* header (Frequency without digits) it raises on
FileInputs ==
    LET FileHeader    == ParseHeaderText(ID_AB12, NameDoe, << "1", "2", "3" >>)
        BadFileHeader == ParseHeaderText(ID_AB12, NameDoe, << >>)
    IN
    { [ first_uint |-> 64, second_uint |-> 1718513475, offset |-> 0, header_size |-> 64,
        header |-> FileHeader ],
      [ first_uint |-> 0, second_uint |-> 2, offset |-> 10240, header_size |-> 128,
        header |-> FileHeader ],
      [ first_uint |-> 64, second_uint |-> 1718513475, offset |-> 0, header_size |-> 64,
        header |-> BadFileHeader ] }

is_vd(f) == f.first_uint = 0 /\ f.second_uint <= 64

\* load_twix_vb: header_size is the first uint; the records follow the header
vb_first_record(f) == f.first_uint

\* load_twix_vd: the last measurement's entry gives the offset of its header
vd_first_record(f) == f.offset + f.header_size

NotBuilt ==
    [ built |-> FALSE, data_shape |-> << >>, data |-> << >>, shape |-> << >>,
      metadata |-> << >>, dt |-> 0, f0 |-> 0 ]

Init ==
    /\ file \in FileInputs
    /\ stream = << >>
    /\ variant = "none"
    /\ pos = 0
    /\ pc = "start"
    /\ builder = NewBuilder
    /\ visited = << >>
    /\ accepted = << >>
    /\ mrs_data = NotBuilt
    /\ fin = << >>
    /\ header_string = << >>
    /\ anon_pc = "idle"
    /\ fout = << >>

\* the dispatch, and the decoder up to its loop: builder.set_header_string(header)
\* with the decoded header text of the file
load_twix ==
    /\ pc = "start"
    /\ variant' = IF is_vd(file) THEN "vd" ELSE "vb"
    /\ pos' = IF is_vd(file) THEN vd_first_record(file) ELSE vb_first_record(file)
    /\ IF parse_raises(file.header)
       THEN pc' = "error" /\ UNCHANGED builder
       ELSE pc' = "loop" /\ builder' = set_header_string(builder, file.header)
    /\ UNCHANGED <<file, stream, visited, accepted, mrs_data, anon_vars>>

(***************************************************************************)
(* One iteration of the decoding loop.  The record at the current position *)
(* is the one read there before, or else any record of StreamInputs: the   *)
(* file does not change while it is decoded.                               *)
(***************************************************************************)
RecordsAt(p) == IF p \in DOMAIN stream THEN { stream[p] } ELSE StreamInputs

Read(rec) ==
    /\ pc = "loop"
    /\ Len(visited) < MaxScans
    /\ rec \in RecordsAt(pos)
    /\ stream' = (pos :> rec) @@ stream
    /\ visited' = Append(visited, pos)
    /\ UNCHANGED <<file, variant, mrs_data, anon_vars>>

\* struct.unpack on a short read: the file ends before the leading fields
scan_eof(rec) ==
    /\ Read(rec)
    /\ rec.kind = "eof"
    /\ pc' = "error"
    /\ UNCHANGED <<pos, builder, accepted>>

\* if acq_end: break
scan_acq_end(rec) ==
    /\ Read(rec)
    /\ rec.kind # "eof"
    /\ acq_end(rec.eval_info_mask)
    /\ pc' = "decoded"
    /\ UNCHANGED <<pos, builder, accepted>>

\* fin.seek(start_position + DMA_length); continue
scan_ignore(rec) ==
    /\ Read(rec)
    /\ rec.kind # "eof"
    /\ ~acq_end(rec.eval_info_mask)
    /\ ignore_scan(rec.eval_info_mask)
    /\ pos' = pos + DMA_length(rec.temp)
    /\ UNCHANGED <<pc, builder, accepted>>

\* the record is parsed as a scan
IsData(rec) ==
    /\ rec.kind # "eof"
    /\ ~acq_end(rec.eval_info_mask)
    /\ ~ignore_scan(rec.eval_info_mask)

\* what stops the parse of a data record: a short read in its body, or one of
\* the raises of set_num_channels, int(nan), set_np, in the order of the code
scan_raises(v, b, rec) ==
    \/ rec.kind = "short"
    \/ set_num_channels_raises(b, rec.num_channels)
    \/ usable_np_raises(rec.num_samples - sample_start(v, rec))
    \/ set_np_raises(set_num_channels(b, rec.num_channels),
                     usable_np(rec.num_samples - sample_start(v, rec)))

\* the builder when the parse stops: set_num_channels may have set the channel
\* count of a first record before a later statement raises
builder_at_raise(v, b, rec) ==
    IF rec.kind = "short" \/ set_num_channels_raises(b, rec.num_channels)
    THEN b
    ELSE set_num_channels(b, rec.num_channels)

scan_fail(rec) ==
    /\ Read(rec)
    /\ IsData(rec)
    /\ scan_raises(variant, builder, rec)
    /\ pc' = "error"
    /\ builder' = builder_at_raise(variant, builder, rec)
    /\ UNCHANGED <<pos, accepted>>

\* the builder after the record's set_num_channels, set_np and add_scan
scan_builder(v, b, rec) ==
    LET start == sample_start(v, rec)
        n     == usable_np(rec.num_samples - start)
    IN  add_scan(set_np(set_num_channels(b, rec.num_channels), n),
                 rec.loop_counters, scan_matrix(rec, start, n))

scan_add(rec) ==
    /\ Read(rec)
    /\ IsData(rec)
    /\ ~scan_raises(variant, builder, rec)
    /\ builder' = scan_builder(variant, builder, rec)
    /\ accepted' = Append(accepted, Len(visited) + 1)
    /\ pos' = pos + DMA_length(rec.temp)
    /\ UNCHANGED pc

load_twix_vb ==
    /\ variant = "vb"
    /\ \E rec \in StreamInputs :
          \/ scan_eof(rec)
          \/ scan_acq_end(rec)
          \/ scan_ignore(rec)
          \/ scan_fail(rec)
          \/ scan_add(rec)

load_twix_vd ==
    /\ variant = "vd"
    /\ \E rec \in StreamInputs :
          \/ scan_eof(rec)
          \/ scan_acq_end(rec)
          \/ scan_ignore(rec)
          \/ scan_fail(rec)
          \/ scan_add(rec)

(***************************************************************************)
(* TwixBuilder.build_mrsdata                                               *)
(***************************************************************************)
\* the shape taken from the last submission instead of from the maximum
data_shape_of_last(b) ==
    [ i \in 1..NumLoopCounters |-> 1 + b.loop_counters[Len(b.loop_counters)][i] ]
    \o << b.num_channels, b.np >>

\* 1 + numpy.max(loop_counter_array, axis=0), then (num_channels, np) appended
data_shape(b) ==
    [ i \in 1..NumLoopCounters |->
        1 + MaxOf({ b.loop_counters[j][i] : j \in 1..Len(b.loop_counters) }) ]
    \o << b.num_channels, b.np >>

RECURSIVE Indices(_, _)
\* the index tuples of the first k dimensions of an array of shape sh
Indices(sh, k) ==
    IF k = 0 THEN { << >> }
    ELSE { Append(t, i) : t \in Indices(sh, k - 1), i \in 0..(sh[k] - 1) }

\* an array of the shape that is not zero
ones(sh) ==
    [ t \in Indices(sh, NumLoopCounters) |->
        [ ch \in 1..sh[NumLoopCounters + 1] |->
            [ k \in 1..sh[NumLoopCounters + 2] |-> <<1, 0>> ] ] ]

\* numpy.zeros(data_shape, dtype='complex'), as a mapping from the 14 loop
\* indices to the (num_channels, np) matrix at them
zeros(sh) ==
    [ t \in Indices(sh, NumLoopCounters) |->
        [ ch \in 1..sh[NumLoopCounters + 1] |->
            [ k \in 1..sh[NumLoopCounters + 2] |-> <<0, 0>> ] ] ]

RECURSIVE scatter_accumulate(_, _, _)
\* the matrices added to the slice instead of assigned
scatter_accumulate(t, b, i) ==
    IF i > Len(b.data) THEN t
    ELSE LET old == t[b.loop_counters[i]]
             sum == [ ch \in DOMAIN old |->
                        [ k \in DOMAIN old[ch] |->
                            << old[ch][k][1] + b.data[i][ch][k][1],
                               old[ch][k][2] + b.data[i][ch][k][2] >> ] ]
         IN  scatter_accumulate([t EXCEPT ![b.loop_counters[i]] = sum], b, i + 1)

RECURSIVE scatter_first_wins(_, _, _)
\* the submissions assigned from the last to the first
scatter_first_wins(t, b, i) ==
    IF i > Len(b.data) THEN t
    ELSE [ scatter_first_wins(t, b, i + 1) EXCEPT ![b.loop_counters[i]] = b.data[i] ]

RECURSIVE scatter(_, _, _)
\* for i, loop_counter in enumerate(loop_counter_array): data[loop_counter] = self.data[i]
scatter(t, b, i) ==
    IF i > Len(b.data) THEN t
    ELSE scatter([t EXCEPT ![b.loop_counters[i]] = b.data[i]], b, i + 1)

\* only the loop dimensions of extent one removed
squeeze_loop_dims(sh) ==
    SelectSeq(SubSeq(sh, 1, NumLoopCounters), LAMBDA d : d # 1)
    \o SubSeq(sh, NumLoopCounters + 1, Len(sh))

\* the shape after data.squeeze()
squeeze(sh) == SelectSeq(sh, LAMBDA d : d # 1)

\* the metadata of the MRSData
metadata(b) ==
    [ patient_name      |-> b.header_params.patient_name,
      patient_id        |-> b.header_params.patient_id,
      patient_birthdate |-> b.header_params.patient_birthdate ]

\* numpy.max of an empty array raises
build_raises(b) == Len(b.loop_counters) = 0

build_mrsdata ==
    /\ pc = "decoded"
    /\ IF build_raises(builder)
       THEN /\ pc' = "error"
            /\ UNCHANGED mrs_data
       ELSE /\ pc' = "built"
            /\ mrs_data' = [ built |-> TRUE,
                             data_shape |-> data_shape(builder),
                             data |-> scatter(zeros(data_shape(builder)), builder, 1),
                             shape |-> squeeze(data_shape(builder)),
                             metadata |-> metadata(builder),
                             dt |-> builder.header_params.dt,
                             f0 |-> builder.header_params.f0 ]
    /\ UNCHANGED <<file, stream, variant, pos, builder, visited, accepted, anon_vars>>

Next == load_twix \/ load_twix_vb \/ load_twix_vd \/ build_mrsdata

Spec == Init /\ [][Next]_vars

(***************************************************************************)
(* The TwixBuilder on its own: set_header_string, then submissions the way *)
(* both decoders make them (set_num_channels, set_np, add_scan), then      *)
(* build_mrsdata after any number of them.                                 *)
(***************************************************************************)
\* the scans submitted to one builder
MaxSubmissions == 3

\* records of one shape at every loop index with every sample block
SubmissionInputs ==
    { Record("full", <<192, 0, 0, 0>>, 0, BaseShape, lc, seed) :
        lc \in LoopCounterInputs, seed \in SeedInputs }

InitBuilder ==
    /\ header_string \in ParseHeaderInputs
    /\ builder = NewBuilder
    /\ pc = "header"
    /\ mrs_data = NotBuilt
    /\ file = [ first_uint |-> 0, second_uint |-> 0, offset |-> 0, header_size |-> 0,
                header |-> << >> ]
    /\ stream = << >>
    /\ variant = "none"
    /\ pos = 0
    /\ visited = << >>
    /\ accepted = << >>
    /\ fin = << >>
    /\ anon_pc = "idle"
    /\ fout = << >>

builder_set_header_string ==
    /\ pc = "header"
    /\ IF parse_raises(header_string)
       THEN pc' = "error" /\ UNCHANGED builder
       ELSE pc' = "decoded" /\ builder' = set_header_string(builder, header_string)
    /\ UNCHANGED <<file, stream, variant, pos, visited, accepted, mrs_data, anon_vars>>

builder_add_scan ==
    /\ pc = "decoded"
    /\ Len(builder.data) < MaxSubmissions
    /\ \E rec \in SubmissionInputs : builder' = scan_builder("vb", builder, rec)
    /\ UNCHANGED <<file, stream, variant, pos, pc, visited, accepted, mrs_data, anon_vars>>

NextBuilder == builder_set_header_string \/ builder_add_scan \/ build_mrsdata

SpecBuilder == InitBuilder /\ [][NextBuilder]_vars

(***************************************************************************)
(* anonymize_twix and anonymize_twix_vb                                    *)
(***************************************************************************)
first_uint(f) == unpack_I(SubSeq(f, 1, 4))

second_uint(f) == unpack_I(SubSeq(f, 5, 8))

\* anonymize_twix_vb: header = fin.read(header_size - 4)
header_bytes(f) == SubSeq(f, 5, first_uint(f))

\* header[:-24]
header_text_bytes(f) == SubSeq(header_bytes(f), 1, Len(header_bytes(f)) - 24)

\* header[-24:]
header_tail_bytes(f) ==
    SubSeq(header_bytes(f), Len(header_bytes(f)) - 23, Len(header_bytes(f)))

\* fin.read() after the header
rest_bytes(f) == SubSeq(f, first_uint(f) + 1, Len(f))

InitAnon ==
    /\ fin \in AnonFileInputs
    /\ header_string = << >>
    /\ anon_pc = "start"
    /\ fout = << >>
    /\ file = [ first_uint |-> 0, second_uint |-> 0, offset |-> 0, header_size |-> 0,
                header |-> << >> ]
    /\ stream = << >>
    /\ variant = "none"
    /\ pos = 0
    /\ pc = "idle"
    /\ builder = NewBuilder
    /\ visited = << >>
    /\ accepted = << >>
    /\ mrs_data = NotBuilt

\* open(anonymized_filename, 'wb') leaves an empty file; then the dispatch
anonymize_twix ==
    /\ anon_pc = "start"
    /\ anon_pc' = IF first_uint(fin) = 0 /\ second_uint(fin) <= 64 THEN "vd" ELSE "vb"
    /\ fout' = << >>
    /\ UNCHANGED <<fin, header_string, decode_vars>>

\* pass
anonymize_twix_vd ==
    /\ anon_pc = "vd"
    /\ anon_pc' = "done"
    /\ UNCHANGED <<fin, header_string, fout, decode_vars>>

\* header_string = header[:-24].decode('windows-1252')
anonymize_twix_vb ==
    /\ anon_pc = "vb"
    /\ IF decode_raises(header_text_bytes(fin))
       THEN anon_pc' = "error" /\ UNCHANGED header_string
       ELSE anon_pc' = "patient_id" /\ header_string' = decode(header_text_bytes(fin))
    /\ UNCHANGED <<fin, fout, decode_vars>>

\* anonymize_twix_header, one action per statement group; anon_pc names the next
\* one
anonymize_patient_id ==
    /\ anon_pc = "patient_id"
    /\ IF search_raises(NamePatientID, header_string)
       THEN anon_pc' = "error" /\ UNCHANGED header_string
       ELSE anon_pc' = "patient_birthday" /\ header_string' = sub_patient_id(header_string)
    /\ UNCHANGED <<fin, fout, decode_vars>>

anonymize_patient_birthday ==
    /\ anon_pc = "patient_birthday"
    /\ IF search_raises(NamePatientBirthDay, header_string)
       THEN anon_pc' = "error" /\ UNCHANGED header_string
       ELSE anon_pc' = "patient_name" /\ header_string' = sub_patient_birthday(header_string)
    /\ UNCHANGED <<fin, fout, decode_vars>>

anonymize_patient_name ==
    /\ anon_pc = "patient_name"
    /\ IF search_raises(NamePatientName, header_string)
       THEN anon_pc' = "error" /\ UNCHANGED header_string
       ELSE anon_pc' = "patient_gender" /\ header_string' = sub_patient_name(header_string)
    /\ UNCHANGED <<fin, fout, decode_vars>>

anonymize_patient_gender ==
    /\ anon_pc = "patient_gender"
    /\ IF patient_gender_raises(header_string)
       THEN anon_pc' = "error" /\ UNCHANGED header_string
       ELSE anon_pc' = "sex" /\ header_string' = sub_patient_gender(header_string)
    /\ UNCHANGED <<fin, fout, decode_vars>>

anonymize_sex ==
    /\ anon_pc = "sex"
    /\ anon_pc' = "exam_date"
    /\ header_string' = sub_sex(header_string)
    /\ UNCHANGED <<fin, fout, decode_vars>>

anonymize_exam_date ==
    /\ anon_pc = "exam_date"
    /\ IF exam_date_raises(header_string)
       THEN anon_pc' = "error" /\ UNCHANGED header_string
       ELSE anon_pc' = "write" /\ header_string' = sub_exam_date(header_string)
    /\ UNCHANGED <<fin, fout, decode_vars>>

\* the four fout.write of anonymize_twix_vb
anonymize_twix_vb_write ==
    /\ anon_pc = "write"
    /\ anon_pc' = "done"
    /\ fout' = pack_I(first_uint(fin)) \o encode(header_string)
               \o header_tail_bytes(fin) \o rest_bytes(fin)
    /\ UNCHANGED <<fin, header_string, decode_vars>>

NextAnon ==
    \/ anonymize_twix
    \/ anonymize_twix_vd
    \/ anonymize_twix_vb
    \/ anonymize_patient_id
    \/ anonymize_patient_birthday
    \/ anonymize_patient_name
    \/ anonymize_patient_gender
    \/ anonymize_sex
    \/ anonymize_exam_date
    \/ anonymize_twix_vb_write

SpecAnon == InitAnon /\ [][NextAnon]_vars

(***************************************************************************)
(* The decode path: what the claims are stated on.                         *)
(***************************************************************************)
\* the record read by loop iteration k
RecordOf(k) == stream[visited[k]]

Iterations == 1..Len(visited)

AcceptedIterations == { accepted[j] : j \in 1..Len(accepted) }

\* bit i of the 32-bit word whose little-endian bytes are temp
WordBit(temp, i) == Bit(temp[i \div 8 + 1], i % 8)

RECURSIVE LowBits(_, _)
\* the value of the low n bits of the word
LowBits(temp, n) ==
    IF n = 0 THEN 0 ELSE LowBits(temp, n - 1) + WordBit(temp, n - 1) * Pow2(n - 1)

\* the low 26 bits of the first 32-bit word of a record
Low26(temp) == LowBits(temp, 26)

\* u is the largest power of two not exceeding x
LargestPow2(u, x) ==
    /\ \E e \in 0..16 : u = Pow2(e)
    /\ u <= x
    /\ x < 2 * u

\* the usable sample count of a record, where it has one
HasUsable(rec) == rec.num_samples >= sample_start(variant, rec)

Usable(rec) == usable_np(rec.num_samples - sample_start(variant, rec))

\* C1, without "each exactly once": in the non-indexed decoder the first record
\* starts right after the header block, each next record starts at the start of
\* the current one plus the low 26 bits of its first word, no record is read
\* after one with the end-of-acquisition flag, the loop ends normally only at
\* such a record, and that record adds no scan.
C1_OrderAndStop ==
    variant = "vb" =>
        /\ Len(visited) > 0 => visited[1] = file.first_uint
        /\ \A k \in Iterations \ {Len(visited)} :
              /\ visited[k + 1] = visited[k] + Low26(RecordOf(k).temp)
              /\ ~(RecordOf(k).kind # "eof" /\ Bit(RecordOf(k).eval_info_mask, 0) = 1)
        /\ pc \in {"decoded", "built"} =>
              /\ Len(visited) > 0
              /\ Bit(RecordOf(Len(visited)).eval_info_mask, 0) = 1
              /\ Len(visited) \notin AcceptedIterations
        /\ \A k \in Iterations :
              (RecordOf(k).kind # "eof" /\ Bit(RecordOf(k).eval_info_mask, 0) = 1)
                  => k \notin AcceptedIterations

\* C1: for every non-indexed container the decode loop visits the records in
\* stream order, each exactly once: the order and the stop of C1_OrderAndStop,
\* and no record start is read by two iterations.
C1_EachRecordOnce ==
    /\ C1_OrderAndStop
    /\ variant = "vb" =>
          \A j, k \in Iterations : j # k => visited[j] # visited[k]

\* C2: the channel count and the usable sample count of the builder are those
\* of the first accepted record in every later state; a later record parsed as
\* data whose channel count or usable sample count differs ends the decode in
\* an error, is not appended, and no tensor is produced.
C2_SetOnceOrRaise ==
    Len(accepted) > 0 =>
        LET first == RecordOf(accepted[1])
        IN  /\ builder.num_channels = first.num_channels
            /\ builder.np = Usable(first)
            /\ \A k \in Iterations :
                  LET rec == RecordOf(k)
                  IN  ( /\ k > accepted[1]
                        /\ IsData(rec)
                        /\ rec.kind = "full"
                        /\ HasUsable(rec)
                        /\ \/ rec.num_channels # first.num_channels
                           \/ Usable(rec) # Usable(first) )
                      => /\ pc = "error"
                         /\ k = Len(visited)
                         /\ k \notin AcceptedIterations
                         /\ Len(builder.data) = Len(accepted)
                         /\ ~mrs_data.built

\* C2's case: a record was accepted and a later one with another channel count
\* or usable sample count was read.
C2_Witness ==
    /\ Len(accepted) > 0
    /\ \E k \in Iterations :
          /\ k > accepted[1]
          /\ IsData(RecordOf(k))
          /\ RecordOf(k).kind = "full"
          /\ HasUsable(RecordOf(k))
          /\ Usable(RecordOf(k)) # Usable(RecordOf(accepted[1]))
          /\ RecordOf(k).num_channels = RecordOf(accepted[1]).num_channels

\* C3: the tensor build_mrsdata allocates has, before the squeeze, for each of
\* the 14 loop dimensions i the extent 1 + the maximum of index[i] over the
\* submitted loop-index tuples, then the channel count and the sample count.
C3_TensorShape ==
    pc = "built" =>
        /\ mrs_data.built
        /\ Len(mrs_data.data_shape) = NumLoopCounters + 2
        /\ \A i \in 1..NumLoopCounters :
              /\ \E j \in 1..Len(builder.loop_counters) :
                    mrs_data.data_shape[i] = 1 + builder.loop_counters[j][i]
              /\ \A j \in 1..Len(builder.loop_counters) :
                    mrs_data.data_shape[i] >= 1 + builder.loop_counters[j][i]
        /\ mrs_data.data_shape[NumLoopCounters + 1] = builder.num_channels
        /\ mrs_data.data_shape[NumLoopCounters + 2] = builder.np
        /\ \A t \in DOMAIN mrs_data.data :
              /\ Len(t) = NumLoopCounters
              /\ \A i \in 1..NumLoopCounters : t[i] \in 0..(mrs_data.data_shape[i] - 1)
              /\ Len(mrs_data.data[t]) = builder.num_channels
              /\ \A ch \in 1..builder.num_channels :
                    Len(mrs_data.data[t][ch]) = builder.np
        /\ \A j \in 1..Len(builder.loop_counters) :
              builder.loop_counters[j] \in DOMAIN mrs_data.data

\* C3's case: a tensor built from two submissions whose loop indices have their
\* maxima in different dimensions.
C3_Witness ==
    /\ pc = "built"
    /\ Len(builder.loop_counters) = 2
    /\ mrs_data.data_shape[1] = 2
    /\ mrs_data.data_shape[14] = 3

\* C4: for every accepted record with n raw samples and sample start s (the
\* dummy-point count in the non-indexed decoder, the FID-start offset plus the
\* dummy-point count in the indexed one) with n > s, the usable length u is the
\* largest power of two not exceeding n - s, and each channel row stored for
\* the record is the raw samples s .. s+u-1, imaginary parts negated.
C4_UsableWindow ==
    \A j \in 1..Len(accepted) :
        LET rec == RecordOf(accepted[j])
            n   == rec.num_samples
            s   == IF variant = "vb" THEN rec.free_param0
                   ELSE rec.ice_program_param4 + rec.free_param0
            m   == builder.data[j]
        IN  n > s =>
              /\ LargestPow2(builder.np, n - s)
              /\ s + builder.np <= n
              /\ Len(m) = rec.num_channels
              /\ \A ch \in 1..rec.num_channels :
                    /\ Len(m[ch]) = builder.np
                    /\ \A k \in 1..builder.np :
                          /\ m[ch][k][1] = RawData(rec, ch)[2 * (s + k) - 1]
                          /\ m[ch][k][2] = 0 - RawData(rec, ch)[2 * (s + k)]

\* C4's case: the indexed decoder accepted a record whose n - s is not a power
\* of two and whose FID-start offset is not zero.
C4_Witness ==
    /\ variant = "vd"
    /\ \E j \in 1..Len(accepted) :
          /\ RecordOf(accepted[j]).ice_program_param4 > 0
          /\ RecordOf(accepted[j]).num_samples - fid_start(RecordOf(accepted[j])) = 7
          /\ builder.np = 4

\* the flags that make a record a non-data record
SkipFlagBits == { 1, 2, 5, 21, 25 }

HasSkipFlag(mask) == \E b \in SkipFlagBits : Bit(mask, b) = 1

\* this step is a loop iteration that read a record with the leading fields
\* present and without the end-of-acquisition flag
ReadsLiveRecord ==
    /\ visited' # visited
    /\ stream'[pos].kind # "eof"
    /\ Bit(stream'[pos].eval_info_mask, 0) = 0

\* the step skipped the record: the position is the record start plus the DMA
\* length and the builder is as it was
Skipped ==
    /\ pos' = pos + Low26(stream'[pos].temp)
    /\ builder' = builder
    /\ accepted' = accepted
    /\ pc' = pc

\* the step appended the record
Appended ==
    /\ accepted' = Append(accepted, Len(visited'))
    /\ Len(builder'.data) = Len(builder.data) + 1
    /\ builder'.loop_counters = Append(builder.loop_counters, stream'[pos].loop_counters)
    /\ pos' = pos + Low26(stream'[pos].temp)
    /\ pc' = pc

\* the step ended the decode in an error and appended nothing
Failed ==
    /\ pc' = "error"
    /\ accepted' = accepted
    /\ builder'.data = builder.data
    /\ builder'.loop_counters = builder.loop_counters

\* C5 as stated: in both decoders a record without the end-of-acquisition flag
\* is skipped when one of the flags of bits 1, 2, 5, 21, 25 is set, and is
\* always accepted and appended when none of them is.
C5_AlwaysAppended ==
    [][ ReadsLiveRecord =>
          IF HasSkipFlag(stream'[pos].eval_info_mask) THEN Skipped ELSE Appended ]_vars

\* C5 as amended: a record without the end-of-acquisition flag is skipped when
\* one of the flags of bits 1, 2, 5, 21, 25 is set; when none is, it is parsed
\* as a scan, and appended unless the parse ends the decode in an error (the
\* file ends inside the record, the channel count or the usable sample count
\* differs from the builder's, or the sample count is below the sample start).
C5_SkipOrParse ==
    [][ ReadsLiveRecord =>
          IF HasSkipFlag(stream'[pos].eval_info_mask) THEN Skipped
          ELSE LET rec == stream'[pos]
                   bad == \/ rec.kind = "short"
                          \/ builder.num_channels \notin { None, rec.num_channels }
                          \/ ~HasUsable(rec)
                          \/ builder.np \notin { None, Usable(rec) }
               IN  IF bad THEN Failed ELSE Appended ]_vars

\* C5's case: a flagged record was skipped, a record without flags was appended
\* and another one without flags ended the decode in an error.
C5_Witness ==
    /\ pc = "error"
    /\ Len(accepted) = 1
    /\ Len(visited) = 3
    /\ HasSkipFlag(RecordOf(1).eval_info_mask)
    /\ RecordOf(1).kind # "eof" /\ ~acq_end(RecordOf(1).eval_info_mask)
    /\ IsData(RecordOf(3))

(***************************************************************************)
(* The anonymizer: what the claims are stated on.                          *)
(***************************************************************************)
\* the header text anonymize_twix_vb decodes and hands to anonymize_twix_header
OriginalText == decode(header_text_bytes(fin))

\* anonymize_twix_header has returned: header_string is the anonymized header
HeaderReturned == anon_pc \in { "write", "done" } /\ header_string # << >>

\* the detector of anonymize_twix takes fin for the indexed variant
IndexedVariant == first_uint(fin) = 0 /\ second_uint(fin) <= 64

\* the matches of pat in text, and how many there are
MatchesOf(pat, text) ==
    LET ms == FindAll(pat, text, 1)
    IN  { ms[k] : k \in 1..Len(ms) }

MatchCount(pat, text) == Len(FindAll(pat, text, 1))

\* the positions of the match m, and of its atoms a .. b
MatchSpan(m) == m.s..(MatchEnd(m) - 1)

GroupSpan(m, a, b) == GroupStart(m, a)..(GroupEnd(m, b) - 1)

\* the quoted value with every character between the quotes an x
Masked(value) == << "\"" >> \o Filler(Len(value) - 2) \o << "\"" >>

\* C6: for every header text on which anonymize_twix_header succeeds, the
\* anonymized header re-encoded has exactly the byte length of the original
\* header text.
C6_SameByteLength ==
    HeaderReturned => Len(encode(header_string)) = Len(header_text_bytes(fin))

\* the fields anonymize_twix_header locates with re.search each occur exactly
\* once in text
LocatedOnce(text) ==
    /\ \A name \in { NamePatientID, NamePatientBirthDay, NamePatientName,
                     NameFrameOfReference } :
           MatchCount(ParamStringPattern(name), text) = 1
    /\ MatchCount(PatientSexPattern, text) = 1

\* C7: whenever one of the field-locating searches matches zero times or more
\* than once in the header text, anonymize_twix_header fails and returns no
\* header; stated on the fields located with re.search: a header is returned
\* only when each of them matches exactly once in the original.
C7_FailsUnlessLocatedOnce == HeaderReturned => LocatedOnce(OriginalText)

\* C8: for every patient identifier, regular-expression specials included,
\* after a successful anonymize_twix_header the value of the PatientID field is
\* a run of x of the length of the original identifier.
C8_IdentifierMasked ==
    HeaderReturned =>
        ParamStringValue(NamePatientID, header_string)
            = Masked(ParamStringValue(NamePatientID, OriginalText))

\* the positions of the five PHI spans of text: the value of the patient
\* identifier field, the value of the birth date field, the occurrences of the
\* patient name, the sex digits, the quoted strings with the exam date
PHISpans(text) ==
    UNION { GroupSpan(m, 5, 7) : m \in MatchesOf(ParamStringPattern(NamePatientID), text) }
    \cup UNION { GroupSpan(m, 5, 7) :
                 m \in MatchesOf(ParamStringPattern(NamePatientBirthDay), text) }
    \cup UNION { MatchSpan(m) :
                 m \in MatchesOf(re_compile(re_escape(ParamStringValue(NamePatientName, text))),
                                 text) }
    \cup UNION { GroupSpan(m, PatientSexGroup2, PatientSexGroup2) :
                 m \in MatchesOf(PatientSexPattern, text) }
    \cup UNION { GroupSpan(m, SexGroup2, SexGroup2) : m \in MatchesOf(SexPattern, text) }
    \cup UNION { MatchSpan(m) : m \in MatchesOf(ExamDatePattern(exam_date(text)), text) }

\* C9: for every header text on which anonymize_twix_header succeeds, every
\* character outside the five PHI spans is identical, at the same position, in
\* the original and in the anonymized header text.
C9_OutsidePHIUnchanged ==
    HeaderReturned =>
        \A i \in (1..Len(OriginalText)) \ PHISpans(OriginalText) :
            i <= Len(header_string) /\ header_string[i] = OriginalText[i]

\* C10: anonymizing a container the detector takes for the indexed variant
\* fails with a fatal error; it never completes normally.
C10_IndexedVariantFails == ~(IndexedVariant /\ anon_pc = "done")

\* anonymize_twix_vb has written the output of a non-indexed file
VbWritten == anon_pc = "done" /\ ~IndexedVariant

\* C11: for every non-indexed container on which anonymization succeeds, the
\* output has the total length of the input, its 4-byte header-length field is
\* the input's, and the trailing 24 bytes of the header and every byte after
\* the header are the input's at the same offsets.
C11_BinaryCopiedInPlace ==
    VbWritten =>
        /\ Len(fout) = Len(fin)
        /\ SubSeq(fout, 1, 4) = SubSeq(fin, 1, 4)
        /\ \A i \in (first_uint(fin) - 23)..Len(fin) : fout[i] = fin[i]

(***************************************************************************)
(* The builder: what the claims are stated on.                             *)
(***************************************************************************)
Submissions == 1..Len(builder.data)

RemoveAt(s, k) == SubSeq(s, 1, k - 1) \o SubSeq(s, k + 1, Len(s))

\* the builder without its submission k
Without(b, k) ==
    [ b EXCEPT !.data = RemoveAt(b.data, k),
               !.loop_counters = RemoveAt(b.loop_counters, k) ]

\* the builder with its submissions in the order f[1], f[2], ...
Permuted(b, f) ==
    [ b EXCEPT !.data = [ i \in 1..Len(b.data) |-> b.data[f[i]] ],
               !.loop_counters = [ i \in 1..Len(b.data) |-> b.loop_counters[f[i]] ] ]

\* the tensor build_mrsdata makes of the submissions of b, and the one it made
Tensor(b) ==
    [ data_shape |-> data_shape(b),
      data       |-> scatter(zeros(data_shape(b)), b, 1),
      shape      |-> squeeze(data_shape(b)) ]

BuiltTensor ==
    [ data_shape |-> mrs_data.data_shape, data |-> mrs_data.data, shape |-> mrs_data.shape ]

\* submissions j and k carry the same (loop-index, matrix) pair
SamePair(j, k) ==
    /\ builder.loop_counters[j] = builder.loop_counters[k]
    /\ builder.data[j] = builder.data[k]

\* submissions j and k carry the same loop index with different matrices
Conflict(j, k) ==
    /\ builder.loop_counters[j] = builder.loop_counters[k]
    /\ builder.data[j] # builder.data[k]

C13_AnyOrder ==
    pc = "built" =>
        \A f \in Permutations(Submissions) : Tensor(Permuted(builder, f)) = BuiltTensor

\* C13 as amended: the tensor is the same for every order of the submissions
\* in which the submissions that carry the same loop index with different
\* matrices keep their order; for every order when there are no such
\* submissions.
C13_OrderWithinIndex ==
    pc = "built" =>
        \A f \in Permutations(Submissions) :
            (\A i, j \in Submissions : (i < j /\ Conflict(f[i], f[j])) => f[i] < f[j])
                => Tensor(Permuted(builder, f)) = BuiltTensor

\* C13's case: a tensor built from two different matrices at one loop index
\* and a third submission at another loop index.
C13_Witness ==
    /\ pc = "built"
    /\ Len(builder.data) = 3
    /\ Conflict(1, 2)
    /\ builder.loop_counters[3] # builder.loop_counters[1]

\* the loop-index tuple t was submitted
Submitted(t) == \E j \in Submissions : builder.loop_counters[j] = t

\* C14: in the tensor build_mrsdata populates, before the squeeze, every slice
\* at a loop-index tuple that was never submitted is entirely zero, and every
\* slice at a submitted tuple equals a matrix submitted at that tuple.
C14_ZeroOrSubmitted ==
    pc = "built" =>
        \A t \in DOMAIN mrs_data.data :
            IF Submitted(t)
            THEN \E j \in Submissions :
                    /\ builder.loop_counters[j] = t
                    /\ mrs_data.data[t] = builder.data[j]
            ELSE \A ch \in DOMAIN mrs_data.data[t] :
                    \A k \in DOMAIN mrs_data.data[t][ch] :
                        mrs_data.data[t][ch][k] = <<0, 0>>

\* C14's case: a tensor with slices that were submitted and slices, with
\* samples, that were not.
C14_Witness ==
    /\ pc = "built"
    /\ \E t \in DOMAIN mrs_data.data :
          /\ ~Submitted(t)
          /\ Len(mrs_data.data[t]) = 2
          /\ Len(mrs_data.data[t][1]) = 4
    /\ \E t \in DOMAIN mrs_data.data : Submitted(t)

\* C16: when two or more submissions carry the same loop-index tuple, the
\* slice at that tuple after build_mrsdata is the matrix of the submission made
\* last in add_scan order.
C16_LastWriteWins ==
    pc = "built" =>
        \A j \in Submissions :
            (\A k \in Submissions : k > j => builder.loop_counters[k] # builder.loop_counters[j])
                => mrs_data.data[builder.loop_counters[j]] = builder.data[j]

\* C16's case: a tensor built from two different matrices at one loop index.
C16_Witness ==
    /\ pc = "built"
    /\ Len(builder.data) = 2
    /\ Conflict(1, 2)
    /\ mrs_data.data[builder.loop_counters[1]] # builder.data[1]

\* the dimensions of the pre-squeeze shape that are kept, and the place of a
\* kept dimension in the returned shape
KeptDims == { i \in 1..Len(mrs_data.data_shape) : mrs_data.data_shape[i] # 1 }

PlaceOf(i) == Cardinality({ j \in KeptDims : j <= i })

\* C17: the shape of the tensor build_mrsdata returns is the pre-squeeze shape
\* (14 loop extents, channel count, sample count) with every extent equal to one
\* removed, the channel and sample dimensions included, and the other extents
\* in their order; one record at the all-zero loop index with 2 channels and
\* usable length 4 gives (2, 4).
C17_SqueezedShape ==
    pc = "built" =>
        /\ Len(mrs_data.shape) = Cardinality(KeptDims)
        /\ \A i \in KeptDims : mrs_data.shape[PlaceOf(i)] = mrs_data.data_shape[i]
        /\ ( /\ Len(builder.data) = 1
             /\ builder.loop_counters[1] = Zero14
             /\ builder.num_channels = 2
             /\ builder.np = 4 ) => mrs_data.shape = <<2, 4>>

\* C17's case: the non-indexed decoder read one record at the all-zero loop
\* index with 2 channels, 8 raw samples and 2 dummy points.
C17_Witness ==
    /\ pc = "built"
    /\ variant = "vb"
    /\ Len(accepted) = 1
    /\ RecordOf(accepted[1]).loop_counters = Zero14
    /\ RecordOf(accepted[1]).num_channels = 2
    /\ RecordOf(accepted[1]).num_samples = 8
    /\ RecordOf(accepted[1]).free_param0 = 2
    /\ mrs_data.shape = <<2, 4>>

\* the text between the quotes of the ParamString parameter name of the header
\* given to set_header_string
QuotedValue(name) ==
    LET line == ParamStringLine(name, << >>)
        open == SubSeq(line, 1, Len(line) - Len(CloseBrace) - 1)
        at   == CHOOSE i \in 1..Len(header_string) :
                    /\ SubSeq(header_string, i, i + Len(open) - 1) = open
                    /\ \A h \in 1..(i - 1) : SubSeq(header_string, h, h + Len(open) - 1) # open
        from == at + Len(open)
        to   == CHOOSE i \in from..Len(header_string) :
                    /\ header_string[i] = "\n"
                    /\ \A h \in from..(i - 1) : header_string[h] # "\n"
    IN  SubSeq(header_string, from, to - Len(CloseBrace) - 1)

\* C15: the metadata returned with the tensor carries patient_name, patient_id
\* and patient_birthdate character for character as the quoted values of the
\* PatientName, PatientID and PatientBirthDay parameters of the header.
C15_MetadataVerbatim ==
    pc = "built" =>
        /\ mrs_data.metadata.patient_name = QuotedValue(NamePatientName)
        /\ mrs_data.metadata.patient_id = QuotedValue(NamePatientID)
        /\ mrs_data.metadata.patient_birthdate = QuotedValue(NamePatientBirthDay)

\* C18: the decode loop of either variant terminates on a finite stream: every
\* iteration stops the loop (terminal record or fatal error) or moves the
\* stream position to a strictly larger record start, for every declared DMA
\* length, 0 included.
C18_StopsOrAdvances ==
    [][ visited' # visited => (pc' \in { "decoded", "error" } \/ pos' > pos) ]_vars

====
